---- MODULE Spec2Model ----
(***************************************************************************)
(* twemproxy, src/nc_mbuf.c: the mbuf free pool, mbuf queues (STAILQ),     *)
(* mbuf_copy and mbuf_split.                                               *)
(*                                                                         *)
(* Every C function is an operator from a "world" (the memory the function *)
(* can reach: the mbuf headers, their data regions, the free pool, the     *)
(* callers' queue heads) to the world after the call.  An ASSERT that      *)
(* fails aborts the process (status "abort"); a dereference of NULL or of  *)
(* freed memory is undefined behaviour (status "undefined"); a traversal   *)
(* that never ends is status "hang".  All three are terminal.              *)
(***************************************************************************)
EXTENDS Integers, Sequences, FiniteSets, TLC

\* ------------------------------------------------------------- bounds
\* regions the allocator hands out before nc_alloc only fails
NBuf == 3
\* data bytes of one mbuf (MBUF_SIZE - MBUF_HSIZE, scaled down)
MBUF_LEN == 16
\* calls of mbuf_copy by callers, and of mbuf_split, in one run
MaxCopy == 2
MaxSplit == 1

\* ------------------------------------------------------------- constants
NULL == 0
MBUF_OFFSET == MBUF_LEN
MBUF_MAGIC == "deadbeef"
\* TLC's integers are 32 bits wide.  A uint32_t is kept as its bit pattern
\* read as a signed int, so 2^32 - 1 is -1; a size_t that wrapped below zero
\* is kept as the negative difference (it stands for that plus 2^64).
UINT32_MAX == 0 - 1
Inc32(n) == IF n = UINT32_MAX THEN 0 ELSE n + 1
Dec32(n) == IF n = 0 THEN UINT32_MAX ELSE n - 1

Buf == 1 .. NBuf
\* the mbuf queues owned by callers (struct mhdr): one
Queue == {1}
\* the free pool's head is addressed as queue 0 by the shared queue code
FREEQ == NULL

VARIABLES
    mbuf,         \* struct mbuf headers, by region
    mem,          \* the MBUF_LEN data bytes of each region
    nfree_mbufq,  \* static uint32_t nfree_mbufq
    free_mbufq,   \* static struct mhdr free_mbufq
    mhdr,         \* the callers' struct mhdr queue heads
    status,       \* "ok", or how the process ended
    ncopy,        \* caller mbuf_copy calls so far
    nsplit,       \* mbuf_split calls so far
    call          \* the last call: its name, arguments and return value

vars == <<mbuf, mem, nfree_mbufq, free_mbufq, mhdr, status, ncopy, nsplit, call>>

\* ------------------------------------------------------------- memory
\* a region not (or no longer) handed out by the allocator
NoMbuf == [state |-> "unalloc", magic |-> "", next |-> NULL,
           start |-> 0, end |-> 0, pos |-> 0, last |-> 0]

\* bytes of a fresh region: never read before they are written
Junk == "?"
NoMem == [i \in 1 .. MBUF_LEN |-> Junk]

World == [mbuf |-> mbuf, mem |-> mem, nfree_mbufq |-> nfree_mbufq,
          free_mbufq |-> free_mbufq, mhdr |-> mhdr, status |-> status]

Live(w, b) == b \in Buf /\ w.mbuf[b].state = "live"

Fail(w, how) == [w EXCEPT !.status = how]

\* F(x), with x evaluated once
Bind(x, F(_)) == CHOOSE y \in {F(v) : v \in {x}} : TRUE

\* ------------------------------------------------------------- STAILQ
\* A head is {stqh_first, stqh_last}; stqh_last points at a next field:
\* NULL stands for &head.stqh_first, b for &b->next.
STAILQ_INIT == [stqh_first |-> NULL, stqh_last |-> NULL]

STAILQ_EMPTY(h) == h.stqh_first = NULL

STAILQ_FIRST(h) == h.stqh_first

\* the element whose next field stqh_last points at
STAILQ_LAST(h) == IF STAILQ_EMPTY(h) THEN NULL ELSE h.stqh_last

QHead(w, q) == IF q = FREEQ THEN w.free_mbufq ELSE w.mhdr[q]

SetHead(w, q, h) ==
    IF q = FREEQ THEN [w EXCEPT !.free_mbufq = h] ELSE [w EXCEPT !.mhdr[q] = h]

STAILQ_INSERT_HEAD(w, q, elm) ==
    LET h == QHead(w, q)
        w1 == [w EXCEPT !.mbuf[elm].next = h.stqh_first]
    IN  SetHead(w1, q, [stqh_first |-> elm,
                        stqh_last |-> IF h.stqh_first = NULL THEN elm
                                      ELSE h.stqh_last])

STAILQ_INSERT_TAIL(w, q, elm) ==
    LET h == QHead(w, q)
        w1 == [w EXCEPT !.mbuf[elm].next = NULL]
    IN  IF h.stqh_last = NULL
        THEN SetHead(w1, q, [stqh_first |-> elm, stqh_last |-> elm])
        ELSE IF ~Live(w1, h.stqh_last) THEN Fail(w1, "undefined")
        ELSE SetHead([w1 EXCEPT !.mbuf[h.stqh_last].next = elm], q,
                     [h EXCEPT !.stqh_last = elm])

STAILQ_REMOVE_HEAD(w, q) ==
    LET h == QHead(w, q)
        nxt == w.mbuf[h.stqh_first].next
    IN  SetHead(w, q, [stqh_first |-> nxt,
                       stqh_last |-> IF nxt = NULL THEN NULL ELSE h.stqh_last])

\* the element before elm, walking from cur: -1 when the walk dereferences
\* NULL or freed memory, -2 when it never ends
RECURSIVE PrevOf(_, _, _, _)
PrevOf(w, cur, elm, fuel) ==
    IF ~Live(w, cur) THEN -1
    ELSE IF w.mbuf[cur].next = elm THEN cur
    ELSE IF fuel = 0 THEN -2
    ELSE PrevOf(w, w.mbuf[cur].next, elm, fuel - 1)

STAILQ_REMOVE(w, q, elm) ==
    LET h == QHead(w, q) IN
    IF h.stqh_first = elm THEN STAILQ_REMOVE_HEAD(w, q)
    ELSE Bind(PrevOf(w, h.stqh_first, elm, NBuf), LAMBDA cur :
         IF cur = -1 THEN Fail(w, "undefined")
         ELSE IF cur = -2 THEN Fail(w, "hang")
         ELSE LET nxt == w.mbuf[elm].next
                  w1 == [w EXCEPT !.mbuf[cur].next = nxt]
              IN  IF nxt = NULL
                  THEN SetHead(w1, q, [h EXCEPT !.stqh_last = cur])
                  ELSE w1)

\* ------------------------------------------------------------- the pool
\* nc_alloc(MBUF_SIZE): the lowest region never handed out, or NULL
Unalloc(w) == {b \in Buf : w.mbuf[b].state = "unalloc"}

nc_alloc(w, ok) ==
    IF ok /\ Unalloc(w) # {}
    THEN CHOOSE b \in Unalloc(w) : \A c \in Unalloc(w) : b <= c
    ELSE NULL

\* _mbuf_get without nfree_mbufq-- (line 41)
_mbuf_get_no_count(w, ok) ==
    IF ~STAILQ_EMPTY(w.free_mbufq)
    THEN LET b == STAILQ_FIRST(w.free_mbufq) IN
         IF w.nfree_mbufq = 0 \/ ~Live(w, b) \/ w.mbuf[b].magic # MBUF_MAGIC
         THEN [w |-> Fail(w, "abort"), ret |-> NULL]
         ELSE Bind(STAILQ_REMOVE_HEAD(w, FREEQ), LAMBDA w2 :
                  [w |-> [w2 EXCEPT !.mbuf[b].next = NULL], ret |-> b])
    ELSE LET b == nc_alloc(w, ok) IN
         IF b = NULL THEN [w |-> w, ret |-> NULL]
         ELSE [w |-> [w EXCEPT !.mbuf[b].state = "live",
                               !.mbuf[b].magic = MBUF_MAGIC,
                               !.mbuf[b].next = NULL],
               ret |-> b]

\* _mbuf_get that asks the allocator (line 50) before it looks at the pool
\* (line 39), and gives up when the allocator does
_mbuf_get_alloc_first(w, ok) ==
    IF nc_alloc(w, ok) = NULL THEN [w |-> w, ret |-> NULL]
    ELSE IF ~STAILQ_EMPTY(w.free_mbufq)
    THEN LET b == STAILQ_FIRST(w.free_mbufq) IN
         IF w.nfree_mbufq = 0 \/ ~Live(w, b) \/ w.mbuf[b].magic # MBUF_MAGIC
         THEN [w |-> Fail(w, "abort"), ret |-> NULL]
         ELSE Bind(STAILQ_REMOVE_HEAD([w EXCEPT !.nfree_mbufq = Dec32(@)],
                                      FREEQ), LAMBDA w2 :
                  [w |-> [w2 EXCEPT !.mbuf[b].next = NULL], ret |-> b])
    ELSE LET b == nc_alloc(w, ok) IN
         [w |-> [w EXCEPT !.mbuf[b].state = "live",
                          !.mbuf[b].magic = MBUF_MAGIC,
                          !.mbuf[b].next = NULL],
          ret |-> b]

_mbuf_get(w, ok) ==
    IF ~STAILQ_EMPTY(w.free_mbufq)
    THEN IF ~(w.nfree_mbufq # 0) THEN [w |-> Fail(w, "abort"), ret |-> NULL]
         ELSE LET b == STAILQ_FIRST(w.free_mbufq) IN
              IF ~Live(w, b) THEN [w |-> Fail(w, "undefined"), ret |-> NULL]
              ELSE Bind(STAILQ_REMOVE_HEAD([w EXCEPT !.nfree_mbufq = Dec32(@)],
                                           FREEQ), LAMBDA w2 :
                       IF w2.mbuf[b].magic # MBUF_MAGIC
                       THEN [w |-> Fail(w2, "abort"), ret |-> NULL]
                       ELSE [w |-> [w2 EXCEPT !.mbuf[b].next = NULL], ret |-> b])
    ELSE LET b == nc_alloc(w, ok) IN
         IF b = NULL THEN [w |-> w, ret |-> NULL]
         ELSE [w |-> [w EXCEPT !.mbuf[b].state = "live",
                               !.mbuf[b].magic = MBUF_MAGIC,
                               !.mbuf[b].next = NULL],
               ret |-> b]

\* mbuf_get without lines 100-101: a recycled mbuf keeps its cursors
mbuf_get_stale(w, ok) ==
    Bind(_mbuf_get(w, ok), LAMBDA r :
        IF r.w.status # "ok" \/ r.ret = NULL THEN r
        ELSE [w |-> [r.w EXCEPT !.mbuf[r.ret].start = 0,
                                !.mbuf[r.ret].end = MBUF_OFFSET],
              ret |-> r.ret])

\* (the header sits MBUF_OFFSET bytes into its region; cursors are offsets
\* from the start of the region)
mbuf_get(w, ok) ==
    Bind(_mbuf_get(w, ok), LAMBDA r :
        IF r.w.status # "ok" \/ r.ret = NULL THEN r
        ELSE LET b == r.ret
                 buf == MBUF_OFFSET - MBUF_OFFSET
             IN  Bind([r.w EXCEPT !.mbuf[b].start = buf,
                                  !.mbuf[b].end = buf + MBUF_OFFSET], LAMBDA w1 :
                     IF ~(w1.mbuf[b].end - w1.mbuf[b].start = MBUF_LEN
                          /\ w1.mbuf[b].start < w1.mbuf[b].end)
                     THEN [w |-> Fail(w1, "abort"), ret |-> NULL]
                     ELSE [w |-> [w1 EXCEPT !.mbuf[b].pos = w1.mbuf[b].start,
                                            !.mbuf[b].last = w1.mbuf[b].start],
                           ret |-> b]))

mbuf_free(w, b) ==
    IF ~Live(w, b) THEN Fail(w, "undefined")
    ELSE IF ~(w.mbuf[b].next = NULL /\ w.mbuf[b].magic = MBUF_MAGIC)
    THEN Fail(w, "abort")
    ELSE [w EXCEPT !.mbuf[b].state = "freed"]

\* mbuf_put that hands the region back (mbuf_free) instead of pooling it
mbuf_put_frees(w, b) ==
    IF ~Live(w, b) THEN Fail(w, "undefined")
    ELSE IF ~(w.mbuf[b].next = NULL /\ w.mbuf[b].magic = MBUF_MAGIC)
    THEN Fail(w, "abort")
    ELSE mbuf_free(w, b)

\* mbuf_put with STAILQ_INSERT_TAIL for STAILQ_INSERT_HEAD
mbuf_put_tail(w, b) ==
    IF ~Live(w, b) THEN Fail(w, "undefined")
    ELSE IF ~(w.mbuf[b].next = NULL /\ w.mbuf[b].magic = MBUF_MAGIC)
    THEN Fail(w, "abort")
    ELSE STAILQ_INSERT_TAIL([w EXCEPT !.nfree_mbufq = Inc32(@)], FREEQ, b)

mbuf_put(w, b) ==
    IF ~Live(w, b) THEN Fail(w, "undefined")
    ELSE IF ~(w.mbuf[b].next = NULL /\ w.mbuf[b].magic = MBUF_MAGIC)
    THEN Fail(w, "abort")
    ELSE STAILQ_INSERT_HEAD([w EXCEPT !.nfree_mbufq = Inc32(@)], FREEQ, b)

mbuf_length(w, b) == w.mbuf[b].last - w.mbuf[b].pos

mbuf_size(w, b) == w.mbuf[b].end - w.mbuf[b].last

mbuf_full(w, b) == w.mbuf[b].last = w.mbuf[b].end

mbuf_insert(w, q, b) ==
    IF ~Live(w, b) THEN Fail(w, "undefined")
    ELSE STAILQ_INSERT_TAIL(w, q, b)

\* mbuf_remove with STAILQ_REMOVE_HEAD for STAILQ_REMOVE (line 176)
mbuf_remove_head(w, q, b) ==
    IF ~Live(w, b) THEN Fail(w, "undefined")
    ELSE Bind(STAILQ_REMOVE_HEAD(w, q), LAMBDA w1 :
         IF w1.status # "ok" THEN w1
         ELSE [w1 EXCEPT !.mbuf[b].next = NULL])

mbuf_remove(w, q, b) ==
    IF ~Live(w, b) THEN Fail(w, "undefined")
    ELSE Bind(STAILQ_REMOVE(w, q, b), LAMBDA w1 :
         IF w1.status # "ok" THEN w1
         ELSE [w1 EXCEPT !.mbuf[b].next = NULL])

mbuf_init(w) == [w EXCEPT !.nfree_mbufq = 0, !.free_mbufq = STAILQ_INIT]

\* mbuf_deinit with "if" for "while": only the first mbuf is freed
mbuf_deinit_if(w) ==
    IF ~STAILQ_EMPTY(w.free_mbufq)
    THEN LET b == STAILQ_FIRST(w.free_mbufq) IN
         Bind(mbuf_remove(w, FREEQ, b), LAMBDA w1 :
         Bind(IF w1.status = "ok" THEN mbuf_free(w1, b) ELSE w1, LAMBDA w2 :
             IF w2.status # "ok" THEN w2
             ELSE [w2 EXCEPT !.nfree_mbufq = Dec32(@)]))
    ELSE w

RECURSIVE mbuf_deinit(_)
mbuf_deinit(w) ==
    IF w.status # "ok" THEN w
    ELSE IF ~STAILQ_EMPTY(w.free_mbufq)
    THEN LET b == STAILQ_FIRST(w.free_mbufq) IN
         Bind(mbuf_remove(w, FREEQ, b), LAMBDA w1 :
         Bind(IF w1.status = "ok" THEN mbuf_free(w1, b) ELSE w1, LAMBDA w2 :
             IF w2.status # "ok" THEN w2
             ELSE Bind([w2 EXCEPT !.nfree_mbufq = Dec32(@)], LAMBDA w3 :
                      mbuf_deinit(w3))))
    ELSE IF w.nfree_mbufq # 0 THEN Fail(w, "abort")
    ELSE w

\* ------------------------------------------------------------- copy
\* the literal table built from MCOPY_CODEC, and its codes
MCOPY_GET == 0
MCOPY_CRLF == 1
MCOPY_NIL == 2
MCOPY_SENTINEL == 3

mcopy_strings ==
    [c \in MCOPY_GET .. MCOPY_SENTINEL - 1 |->
        CASE c = MCOPY_GET -> <<"g", "e", "t", " ">>
          [] c = MCOPY_CRLF -> <<"\r", "\n">>
          [] OTHER -> <<>>]

\* a source pointer: the region it points into (NULL: memory outside every
\* mbuf), the offset in that region, and the bytes found there
External(bytes) == [region |-> NULL, off |-> 0, bytes |-> bytes]

InMbuf(w, b, off) ==
    [region |-> b, off |-> off,
     bytes |-> [i \in 1 .. MBUF_LEN - off |-> w.mem[b][off + i]]]

nc_memcpy(w, b, at, src, n) ==
    [w EXCEPT !.mem[b] = [i \in 1 .. MBUF_LEN |->
        IF at < i /\ i <= at + n THEN src.bytes[i - at] ELSE @[i]]]

\* mbuf_copy without the early return for n = 0 (lines 189-191)
mbuf_copy_no_skip(w, b, src, n) ==
    IF ~Live(w, b) THEN Fail(w, "undefined")
    ELSE IF ~(w.mbuf[b].end >= w.mbuf[b].last
              /\ ~mbuf_full(w, b) /\ n >= 0 /\ n <= mbuf_size(w, b))
    THEN Fail(w, "abort")
    ELSE IF ~(src.region # b \/ src.off < w.mbuf[b].start
              \/ src.off >= w.mbuf[b].end)
    THEN Fail(w, "abort")
    ELSE [nc_memcpy(w, b, w.mbuf[b].last, src, n) EXCEPT !.mbuf[b].last = @ + n]

\* mbuf_copy that advances last one byte short (line 200)
mbuf_copy_short(w, b, src, n) ==
    IF n = 0 THEN w
    ELSE IF ~Live(w, b) THEN Fail(w, "undefined")
    ELSE IF ~(w.mbuf[b].end >= w.mbuf[b].last
              /\ ~mbuf_full(w, b) /\ n >= 0 /\ n <= mbuf_size(w, b))
    THEN Fail(w, "abort")
    ELSE IF ~(src.region # b \/ src.off < w.mbuf[b].start
              \/ src.off >= w.mbuf[b].end)
    THEN Fail(w, "abort")
    ELSE [nc_memcpy(w, b, w.mbuf[b].last, src, n) EXCEPT !.mbuf[b].last = @ + n - 1]

mbuf_copy(w, b, src, n) ==
    IF n = 0 THEN w
    ELSE IF ~Live(w, b) THEN Fail(w, "undefined")
    ELSE IF ~(w.mbuf[b].end >= w.mbuf[b].last
              /\ ~mbuf_full(w, b) /\ n >= 0 /\ n <= mbuf_size(w, b))
    THEN Fail(w, "abort")
    ELSE IF ~(src.region # b \/ src.off < w.mbuf[b].start
              \/ src.off >= w.mbuf[b].end)
    THEN Fail(w, "abort")
    ELSE [nc_memcpy(w, b, w.mbuf[b].last, src, n) EXCEPT !.mbuf[b].last = @ + n]

mbuf_mcopy(w, b, copy) ==
    IF ~(copy >= MCOPY_GET /\ copy < MCOPY_SENTINEL) THEN Fail(w, "abort")
    ELSE mbuf_copy(w, b, External(mcopy_strings[copy]), Len(mcopy_strings[copy]))

\* lines 246-256 of mbuf_split: the copies made once mbuf_get has succeeded
split_copies(w, tl, nbuf, pos, headcopy, tailcopy) ==
    Bind(mbuf_mcopy(w, nbuf, headcopy), LAMBDA w1 :
    Bind(IF w1.status = "ok"
         THEN mbuf_copy(w1, nbuf, InMbuf(w1, tl, pos), w1.mbuf[tl].last - pos)
         ELSE w1, LAMBDA w2 :
    Bind(IF w2.status = "ok" THEN [w2 EXCEPT !.mbuf[tl].last = pos] ELSE w2,
         LAMBDA w3 :
        IF w3.status = "ok" THEN mbuf_mcopy(w3, tl, tailcopy) ELSE w3)))

\* mbuf_split that truncates the tail (line 253) before mbuf_get (line 241)
mbuf_split_truncates_first(w, q, pos, headcopy, tailcopy, ok) ==
    LET h == QHead(w, q)
        tl == STAILQ_LAST(h)
    IN  IF STAILQ_EMPTY(h) \/ ~Live(w, tl) THEN [w |-> Fail(w, "abort"), ret |-> NULL]
        ELSE IF ~(pos >= w.mbuf[tl].pos /\ pos <= w.mbuf[tl].last)
        THEN [w |-> Fail(w, "abort"), ret |-> NULL]
        ELSE Bind(mbuf_get([w EXCEPT !.mbuf[tl].last = pos], ok), LAMBDA r :
             IF r.w.status # "ok" \/ r.ret = NULL THEN r
             ELSE Bind(split_copies([r.w EXCEPT !.mbuf[tl].last = w.mbuf[tl].last],
                                    tl, r.ret, pos, headcopy, tailcopy),
                       LAMBDA w4 : [w |-> w4, ret |-> r.ret]))

\* mbuf_split that copies the data (line 250) before the head literal
\* (line 247)
mbuf_split_data_first(w, q, pos, headcopy, tailcopy, ok) ==
    LET h == QHead(w, q)
        tl == STAILQ_LAST(h)
    IN  IF STAILQ_EMPTY(h) \/ ~Live(w, tl) THEN [w |-> Fail(w, "abort"), ret |-> NULL]
        ELSE IF ~(pos >= w.mbuf[tl].pos /\ pos <= w.mbuf[tl].last)
        THEN [w |-> Fail(w, "abort"), ret |-> NULL]
        ELSE Bind(mbuf_get(w, ok), LAMBDA r :
             IF r.w.status # "ok" \/ r.ret = NULL THEN r
             ELSE Bind(mbuf_copy(r.w, r.ret, InMbuf(r.w, tl, pos),
                                 r.w.mbuf[tl].last - pos), LAMBDA w1 :
                  Bind(IF w1.status = "ok" THEN mbuf_mcopy(w1, r.ret, headcopy)
                       ELSE w1, LAMBDA w2 :
                  Bind(IF w2.status = "ok" THEN [w2 EXCEPT !.mbuf[tl].last = pos]
                       ELSE w2, LAMBDA w3 :
                  Bind(IF w3.status = "ok" THEN mbuf_mcopy(w3, tl, tailcopy)
                       ELSE w3, LAMBDA w4 :
                      [w |-> w4,
                       ret |-> IF w4.status = "ok" THEN r.ret ELSE NULL])))))

\* mbuf_split that copies the tail literal (line 256) into the new mbuf
mbuf_split_literal_on_new(w, q, pos, headcopy, tailcopy, ok) ==
    LET h == QHead(w, q)
        tl == STAILQ_LAST(h)
    IN  IF STAILQ_EMPTY(h) \/ ~Live(w, tl) THEN [w |-> Fail(w, "abort"), ret |-> NULL]
        ELSE IF ~(pos >= w.mbuf[tl].pos /\ pos <= w.mbuf[tl].last)
        THEN [w |-> Fail(w, "abort"), ret |-> NULL]
        ELSE Bind(mbuf_get(w, ok), LAMBDA r :
             IF r.w.status # "ok" \/ r.ret = NULL THEN r
             ELSE Bind(split_copies(r.w, tl, r.ret, pos, headcopy, MCOPY_NIL),
                       LAMBDA w4 :
                  Bind(IF w4.status = "ok" THEN mbuf_mcopy(w4, r.ret, tailcopy)
                       ELSE w4, LAMBDA w5 :
                      [w |-> w5,
                       ret |-> IF w5.status = "ok" THEN r.ret ELSE NULL])))

\* mbuf_split that does not truncate the tail (line 253)
mbuf_split_keeps_last(w, q, pos, headcopy, tailcopy, ok) ==
    LET h == QHead(w, q)
        tl == STAILQ_LAST(h)
    IN  IF STAILQ_EMPTY(h) \/ ~Live(w, tl) THEN [w |-> Fail(w, "abort"), ret |-> NULL]
        ELSE IF ~(pos >= w.mbuf[tl].pos /\ pos <= w.mbuf[tl].last)
        THEN [w |-> Fail(w, "abort"), ret |-> NULL]
        ELSE Bind(mbuf_get(w, ok), LAMBDA r :
             IF r.w.status # "ok" \/ r.ret = NULL THEN r
             ELSE Bind(mbuf_mcopy(r.w, r.ret, headcopy), LAMBDA w1 :
                  Bind(IF w1.status = "ok"
                       THEN mbuf_copy(w1, r.ret, InMbuf(w1, tl, pos),
                                      w1.mbuf[tl].last - pos)
                       ELSE w1, LAMBDA w2 :
                  Bind(IF w2.status = "ok" THEN mbuf_mcopy(w2, tl, tailcopy)
                       ELSE w2, LAMBDA w4 :
                      [w |-> w4,
                       ret |-> IF w4.status = "ok" THEN r.ret ELSE NULL]))))

\* mbuf_split that copies the tail literal (line 256) before it truncates the
\* tail (line 253)
mbuf_split_literal_first(w, q, pos, headcopy, tailcopy, ok) ==
    LET h == QHead(w, q)
        tl == STAILQ_LAST(h)
    IN  IF STAILQ_EMPTY(h) \/ ~Live(w, tl) THEN [w |-> Fail(w, "abort"), ret |-> NULL]
        ELSE IF ~(pos >= w.mbuf[tl].pos /\ pos <= w.mbuf[tl].last)
        THEN [w |-> Fail(w, "abort"), ret |-> NULL]
        ELSE Bind(mbuf_get(w, ok), LAMBDA r :
             IF r.w.status # "ok" \/ r.ret = NULL THEN r
             ELSE Bind(mbuf_mcopy(r.w, r.ret, headcopy), LAMBDA w1 :
                  Bind(IF w1.status = "ok"
                       THEN mbuf_copy(w1, r.ret, InMbuf(w1, tl, pos),
                                      w1.mbuf[tl].last - pos)
                       ELSE w1, LAMBDA w2 :
                  Bind(IF w2.status = "ok" THEN mbuf_mcopy(w2, tl, tailcopy)
                       ELSE w2, LAMBDA w3 :
                  Bind(IF w3.status = "ok" THEN [w3 EXCEPT !.mbuf[tl].last = pos]
                       ELSE w3, LAMBDA w4 :
                      [w |-> w4,
                       ret |-> IF w4.status = "ok" THEN r.ret ELSE NULL])))))

\* mbuf_split that links the new mbuf after the tail before returning it
mbuf_split_inserts(w, q, pos, headcopy, tailcopy, ok) ==
    LET h == QHead(w, q)
        tl == STAILQ_LAST(h)
    IN  IF STAILQ_EMPTY(h) \/ ~Live(w, tl) THEN [w |-> Fail(w, "abort"), ret |-> NULL]
        ELSE IF ~(pos >= w.mbuf[tl].pos /\ pos <= w.mbuf[tl].last)
        THEN [w |-> Fail(w, "abort"), ret |-> NULL]
        ELSE Bind(mbuf_get(w, ok), LAMBDA r :
             IF r.w.status # "ok" \/ r.ret = NULL THEN r
             ELSE Bind(split_copies(r.w, tl, r.ret, pos, headcopy, tailcopy),
                       LAMBDA w4 :
                      [w |-> IF w4.status = "ok"
                             THEN STAILQ_INSERT_TAIL(w4, q, r.ret) ELSE w4,
                       ret |-> r.ret]))

mbuf_split(w, q, pos, headcopy, tailcopy, ok) ==
    LET h == QHead(w, q)
        tl == STAILQ_LAST(h)
    IN  IF STAILQ_EMPTY(h) THEN [w |-> Fail(w, "abort"), ret |-> NULL]
        ELSE IF ~Live(w, tl) THEN [w |-> Fail(w, "undefined"), ret |-> NULL]
        ELSE IF ~(pos >= w.mbuf[tl].pos /\ pos <= w.mbuf[tl].last)
        THEN [w |-> Fail(w, "abort"), ret |-> NULL]
        ELSE Bind(mbuf_get(w, ok), LAMBDA r :
             IF r.w.status # "ok" \/ r.ret = NULL THEN r
             ELSE LET nbuf == r.ret IN
                  Bind(mbuf_mcopy(r.w, nbuf, headcopy), LAMBDA w1 :
                  Bind(IF w1.status = "ok"
                       THEN mbuf_copy(w1, nbuf, InMbuf(w1, tl, pos),
                                      w1.mbuf[tl].last - pos)
                       ELSE w1, LAMBDA w2 :
                  Bind(IF w2.status = "ok"
                       THEN [w2 EXCEPT !.mbuf[tl].last = pos]
                       ELSE w2, LAMBDA w3 :
                  Bind(IF w3.status = "ok"
                       THEN mbuf_mcopy(w3, tl, tailcopy)
                       ELSE w3, LAMBDA w4 :
                      [w |-> w4,
                       ret |-> IF w4.status = "ok" THEN nbuf ELSE NULL])))))

\* the I/O layer consuming n bytes of an mbuf it owns (mbuf->pos += n)
consume(w, b, n) == [w EXCEPT !.mbuf[b].pos = @ + n]

\* ------------------------------------------------------------- views
\* the regions linked from a head, in order (cut after NBuf + 1 links)
RECURSIVE Chain(_, _, _)
Chain(w, b, fuel) ==
    IF b = NULL \/ fuel = 0 THEN <<>>
    ELSE <<b>> \o Chain(w, w.mbuf[b].next, fuel - 1)

Members(w, q) == Chain(w, QHead(w, q).stqh_first, NBuf + 1)

Range(s) == {s[i] : i \in 1 .. Len(s)}

InQ(w, q, b) == b \in Range(Members(w, q))

\* a live region linked in no queue: held by a caller
Held(w, b) == Live(w, b) /\ \A q \in Queue \cup {FREEQ} : ~InQ(w, q, b)

\* ------------------------------------------------------------- calls
Called(op, q, b, pos, n, headcopy, tailcopy, ret) ==
    [op |-> op, q |-> q, b |-> b, pos |-> pos, n |-> n,
     headcopy |-> headcopy, tailcopy |-> tailcopy, ret |-> ret]

NoCall == Called("mbuf_init", NULL, NULL, 0, 0, MCOPY_NIL, MCOPY_NIL, NULL)

Commit(w) ==
    /\ mbuf' = w.mbuf
    /\ mem' = w.mem
    /\ nfree_mbufq' = w.nfree_mbufq
    /\ free_mbufq' = w.free_mbufq
    /\ mhdr' = w.mhdr
    /\ status' = w.status

Init ==
    /\ mbuf = [b \in Buf |-> NoMbuf]
    /\ mem = [b \in Buf |-> NoMem]
    /\ nfree_mbufq = 0
    /\ free_mbufq = STAILQ_INIT
    /\ mhdr = [q \in Queue |-> STAILQ_INIT]
    /\ status = "ok"
    /\ ncopy = 0
    /\ nsplit = 0
    /\ call = NoCall

\* acquire(): mbuf_get(); the allocator may refuse at any time
Acquire ==
    /\ status = "ok"
    /\ \E ok \in BOOLEAN : \E r \in {mbuf_get(World, ok)} :
          /\ Commit(r.w)
          /\ call' = Called("mbuf_get", NULL, NULL, 0, 0, MCOPY_NIL, MCOPY_NIL, r.ret)
    /\ UNCHANGED <<ncopy, nsplit>>

\* release(b): mbuf_put(b)
Release(b) ==
    /\ status = "ok"
    /\ \E w \in {mbuf_put(World, b)} : Commit(w)
    /\ call' = Called("mbuf_put", NULL, b, 0, 0, MCOPY_NIL, MCOPY_NIL, NULL)
    /\ UNCHANGED <<ncopy, nsplit>>

\* append(q, b): mbuf_insert(&mhdr[q], b)
AppendBuf(q, b) ==
    /\ status = "ok"
    /\ \E w \in {mbuf_insert(World, q, b)} : Commit(w)
    /\ call' = Called("mbuf_insert", q, b, 0, 0, MCOPY_NIL, MCOPY_NIL, NULL)
    /\ UNCHANGED <<ncopy, nsplit>>

\* detach(q, b): mbuf_remove(&mhdr[q], b)
DetachBuf(q, b) ==
    /\ status = "ok"
    /\ \E w \in {mbuf_remove(World, q, b)} : Commit(w)
    /\ call' = Called("mbuf_remove", q, b, 0, 0, MCOPY_NIL, MCOPY_NIL, NULL)
    /\ UNCHANGED <<ncopy, nsplit>>

\* pool_teardown(): mbuf_deinit()
Teardown ==
    /\ status = "ok"
    /\ \E w \in {mbuf_deinit(World)} : Commit(w)
    /\ call' = Called("mbuf_deinit", NULL, NULL, 0, 0, MCOPY_NIL, MCOPY_NIL, NULL)
    /\ UNCHANGED <<ncopy, nsplit>>

\* pool_init() called again: mbuf_init()
Reinit ==
    /\ status = "ok"
    /\ \E w \in {mbuf_init(World)} : Commit(w)
    /\ call' = NoCall
    /\ UNCHANGED <<ncopy, nsplit>>

\* copy_bytes(b, source, n): mbuf_copy(b, source, n) from caller memory
CopyBytes(b, bytes) ==
    /\ status = "ok"
    /\ \E w \in {mbuf_copy(World, b, External(bytes), Len(bytes))} : Commit(w)
    /\ call' = Called("mbuf_copy", NULL, b, 0, Len(bytes), MCOPY_NIL, MCOPY_NIL, NULL)
    /\ ncopy' = ncopy + 1
    /\ UNCHANGED nsplit

\* the owner of b reads n of its bytes
Consume(b, n) ==
    /\ status = "ok"
    /\ mbuf[b].pos + n <= mbuf[b].last
    /\ \E w \in {consume(World, b, n)} : Commit(w)
    /\ call' = Called("consume", NULL, b, 0, n, MCOPY_NIL, MCOPY_NIL, NULL)
    /\ UNCHANGED <<ncopy, nsplit>>

\* split(q, pos, head_code, tail_code): mbuf_split(&mhdr[q], pos, ...)
Split(q, pos, headcopy, tailcopy) ==
    /\ status = "ok"
    /\ \E ok \in BOOLEAN :
       \E r \in {mbuf_split(World, q, pos, headcopy, tailcopy, ok)} :
          /\ Commit(r.w)
          /\ call' = Called("mbuf_split", q, STAILQ_LAST(mhdr[q]), pos, 0,
                            headcopy, tailcopy, r.ret)
    /\ nsplit' = nsplit + 1
    /\ UNCHANGED ncopy

\* ------------------------------------------------------------- callers
\* what callers copy, how much they consume at a time, and the literal codes
\* they split with
Request == <<"g", "e", "t", " ", "k", "e", "y", "1", " ",
             "k", "e", "y", "2", "\r", "\n">>
CopySources == {Request, <<"x">>}
ConsumeSizes == {4}
Codes == MCOPY_GET .. MCOPY_SENTINEL - 1

LiveBufs == {b \in Buf : mbuf[b].state = "live"}

\* A caller bound only by the assertions of the code: any live region, at any
\* time.  (The counter is capped: a caller that keeps releasing a region the
\* assertions do not reject would count without end.)
AnyRelease ==
    \E b \in LiveBufs :
        nfree_mbufq # UINT32_MAX /\ nfree_mbufq <= NBuf /\ Release(b)
AnyAppend == \E q \in Queue, b \in LiveBufs : AppendBuf(q, b)
AnyDetach == \E q \in Queue, b \in LiveBufs : DetachBuf(q, b)

NextAsserted ==
    \/ Acquire
    \/ AnyRelease
    \/ AnyAppend
    \/ AnyDetach
    \/ Teardown
    \/ Reinit

SpecAsserted == Init /\ [][NextAsserted]_vars

\* the same caller, using the pool alone
NextAssertedPool ==
    \/ Acquire
    \/ AnyRelease
    \/ Teardown

SpecAssertedPool == Init /\ [][NextAssertedPool]_vars

\* A caller that keeps the documented contract: it releases and appends only
\* regions it holds unlinked, detaches only members of the queue, writes into
\* and consumes only regions it owns (held, or in its queue), copies only what
\* fits, and splits a non-empty queue inside the tail's occupied range.
HeldBufs == {b \in Buf : Held(World, b)}
OwnedBufs == {b \in LiveBufs : ~InQ(World, FREEQ, b)}

OwnRelease == \E b \in HeldBufs : Release(b)
OwnAppend == \E q \in Queue, b \in HeldBufs : AppendBuf(q, b)
OwnDetach == \E q \in Queue : \E b \in Range(Members(World, q)) : DetachBuf(q, b)
OwnCopy ==
    \E b \in OwnedBufs, bytes \in CopySources :
        /\ ncopy < MaxCopy
        /\ Len(bytes) <= mbuf_size(World, b)
        /\ CopyBytes(b, bytes)
OwnConsume == \E b \in OwnedBufs, n \in ConsumeSizes : Consume(b, n)
OwnSplit ==
    \E q \in Queue :
        /\ nsplit < MaxSplit
        /\ ~STAILQ_EMPTY(mhdr[q])
        /\ \E pos \in mbuf[STAILQ_LAST(mhdr[q])].pos .. mbuf[STAILQ_LAST(mhdr[q])].last,
              headcopy \in Codes, tailcopy \in Codes :
               Split(q, pos, headcopy, tailcopy)

\* the pool and the queue: every operation on them
Next ==
    \/ Acquire
    \/ OwnRelease
    \/ OwnAppend
    \/ OwnDetach
    \/ Teardown

Spec == Init /\ [][Next]_vars

\* the pool and the bytes: mbufs acquired, written, consumed and released
NextCopy ==
    \/ Acquire
    \/ OwnRelease
    \/ OwnCopy
    \/ OwnConsume

SpecCopy == Init /\ [][NextCopy]_vars

\* ------------------------------------------------------------- split
\* The worlds mbuf_split is called in, each built by the calls that lead to it:
\* a tail filled by mbuf_copy and partly consumed, alone in the queue or after
\* another mbuf, with the pool empty or holding a used mbuf.
EmptyWorld ==
    [mbuf |-> [b \in Buf |-> NoMbuf], mem |-> [b \in Buf |-> NoMem],
     nfree_mbufq |-> 0, free_mbufq |-> STAILQ_INIT,
     mhdr |-> [q \in Queue |-> STAILQ_INIT], status |-> "ok"]

RECURSIVE CopyAll(_, _, _)
CopyAll(w, b, srcs) ==
    IF srcs = <<>> THEN w
    ELSE Bind(mbuf_copy(w, b, External(Head(srcs)), Len(Head(srcs))),
              LAMBDA w1 : CopyAll(w1, b, Tail(srcs)))

Filled(w, srcs, n) ==
    Bind(mbuf_get(w, TRUE), LAMBDA r :
        [w |-> consume(CopyAll(r.w, r.ret, srcs), r.ret, n), ret |-> r.ret])

Prepared(used, pred, srcs, n) ==
    Bind(IF used THEN Filled(mbuf_init(EmptyWorld), <<Request>>, 4)
         ELSE [w |-> mbuf_init(EmptyWorld), ret |-> NULL], LAMBDA u :
    Bind(IF pred
         THEN Bind(Filled(u.w, << <<"x">> >>, 0), LAMBDA p :
                  mbuf_insert(p.w, 1, p.ret))
         ELSE u.w, LAMBDA wp :
    Bind(Filled(wp, srcs, n), LAMBDA t :
    Bind(mbuf_insert(t.w, 1, t.ret), LAMBDA wt :
        IF used THEN mbuf_put(wt, u.ret) ELSE wt))))

Fills == {<<>>, << <<"x">> >>, <<Request>>, <<Request, <<"x">> >>}
FillLen(srcs) == IF srcs = <<>> THEN 0
                 ELSE IF Len(srcs) = 1 THEN Len(srcs[1])
                 ELSE Len(srcs[1]) + Len(srcs[2])

InitSplit ==
    \E used \in BOOLEAN, pred \in BOOLEAN, srcs \in Fills, n \in 0 .. MBUF_LEN :
        /\ n <= FillLen(srcs)
        /\ n \in {0, 4, FillLen(srcs)}
        /\ \E w \in {Prepared(used, pred, srcs, n)} :
           /\ mbuf = w.mbuf
           /\ mem = w.mem
           /\ nfree_mbufq = w.nfree_mbufq
           /\ free_mbufq = w.free_mbufq
           /\ mhdr = w.mhdr
           /\ status = w.status
    /\ ncopy = 0
    /\ nsplit = 0
    /\ call = NoCall

NextSplit == OwnSplit

SpecSplit == InitSplit /\ [][NextSplit]_vars

\* ------------------------------------------------------------- fill
\* The same worlds, written into: the owner of an mbuf copies into it whatever
\* fits, nothing at all included.
FillSources == CopySources \cup {<<>>}

OwnFill ==
    \E b \in OwnedBufs, bytes \in FillSources :
        /\ ncopy < MaxCopy
        /\ Len(bytes) <= mbuf_size(World, b)
        /\ CopyBytes(b, bytes)

NextFill == OwnFill

SpecFill == InitSplit /\ [][NextFill]_vars

\* ------------------------------------------------------------- life
\* The whole life of the mbufs: acquired, queued, split, released, torn down.
\* Where an mbuf is and whether its memory is handed back does not depend on
\* the bytes: the queue is split with the empty literal.
OwnSplitNil ==
    \E q \in Queue :
        /\ nsplit < MaxSplit
        /\ ~STAILQ_EMPTY(mhdr[q])
        /\ \E pos \in mbuf[STAILQ_LAST(mhdr[q])].pos .. mbuf[STAILQ_LAST(mhdr[q])].last :
               Split(q, pos, MCOPY_NIL, MCOPY_NIL)

NextLife ==
    \/ Acquire
    \/ OwnRelease
    \/ OwnAppend
    \/ OwnDetach
    \/ OwnSplitNil
    \/ Teardown

SpecLife == Init /\ [][NextLife]_vars

\* ------------------------------------------------------------- properties
\* the mbufs of the free pool in order, the occupied bytes of an mbuf, and the
\* places (queue, index) an mbuf is linked at
Pool(w) == Members(w, FREEQ)

Occupied(w, b) == [i \in 1 .. mbuf_length(w, b) |-> w.mem[b][w.mbuf[b].pos + i]]

Places(w, b) ==
    {p \in (Queue \cup {FREEQ}) \X (1 .. NBuf + 1) :
        p[2] <= Len(Members(w, p[1])) /\ Members(w, p[1])[p[2]] = b}

\* a step that returned from mbuf_split with a new mbuf
SplitDone == call'.op = "mbuf_split" /\ call'.ret # NULL /\ status' = "ok"

\* C1: in every state reached by calls whose asserted preconditions pass, an
\* mbuf is a member of at most one queue (the free pool or a buffer queue) and
\* appears in it at most once.  (SpecAsserted)
C1_SingleOwner ==
    status = "ok" => \A b \in Buf : Cardinality(Places(World, b)) <= 1

\* C2: after any sequence of mbuf_get and mbuf_put whose asserted preconditions
\* pass, nfree_mbufq equals the number of mbufs linked in free_mbufq.
\* (SpecAssertedPool)
C2_CountIsLength ==
    status = "ok" => nfree_mbufq = Cardinality(Range(Pool(World)))

\* C3: mbuf_put of an mbuf that is still a member of a queue or of the free
\* pool is rejected by an assertion whatever its position, and the free pool
\* is not touched.  (SpecAsserted)
C3_QueuedReleaseRejected ==
    [][(call'.op = "mbuf_put"
        /\ \E q \in Queue \cup {FREEQ} : InQ(World, q, call'.b))
       => (status' = "abort"
           /\ free_mbufq' = free_mbufq /\ nfree_mbufq' = nfree_mbufq)]_vars

\* C4: every mbuf returned by a successful mbuf_get, fresh or recycled, has
\* pos = last = start and end - start = MBUF_LEN.  (SpecCopy)
C4_AcquireResets ==
    (call.op = "mbuf_get" /\ call.ret # NULL /\ status = "ok")
    => /\ mbuf[call.ret].pos = mbuf[call.ret].start
       /\ mbuf[call.ret].last = mbuf[call.ret].start
       /\ mbuf[call.ret].end - mbuf[call.ret].start = MBUF_LEN

\* mbuf_get has returned a recycled mbuf that still holds earlier bytes
C4_Witness ==
    /\ call.op = "mbuf_get" /\ call.ret # NULL /\ status = "ok"
    /\ mem[call.ret][MBUF_LEN - 1] # Junk

\* C5: when the mbuf_get inside mbuf_split fails, mbuf_split returns NULL and
\* the queue, every mbuf's header and bytes, the free pool and its count are
\* unchanged.  (SpecSplit)
C5_FailedSplitFrame ==
    [][(call'.op = "mbuf_split" /\ call'.ret = NULL /\ status' = "ok")
       => UNCHANGED <<mbuf, mem, mhdr, free_mbufq, nfree_mbufq>>]_vars

\* mbuf_split has failed at a position that would have shortened the tail
C5_Witness ==
    /\ call.op = "mbuf_split" /\ call.ret = NULL /\ status = "ok"
    /\ call.pos < mbuf[call.b].last
    /\ Len(Members(World, call.q)) = 2

\* the scenario of C6: one mbuf in the queue holding the request, split after
\* "key1 " with the literals "get " and "\r\n"
AfterKey1 == Len(<<"g", "e", "t", " ", "k", "e", "y", "1", " ">>)

C6_Scenario ==
    /\ Len(Members(World, 1)) = 1
    /\ Occupied(World, STAILQ_LAST(mhdr[1])) = Request
    /\ SplitDone
    /\ call'.q = 1
    /\ call'.pos = mbuf[STAILQ_LAST(mhdr[1])].pos + AfterKey1
    /\ call'.headcopy = MCOPY_GET /\ call'.tailcopy = MCOPY_CRLF

GetKey1 == <<"g", "e", "t", " ", "k", "e", "y", "1", "\r", "\n">>
GetKey1Space == <<"g", "e", "t", " ", "k", "e", "y", "1", " ", "\r", "\n">>
GetKey2 == <<"g", "e", "t", " ", "k", "e", "y", "2", "\r", "\n">>

\* C6 as stated: in the scenario the original mbuf is left holding
\* "get key1\r\n" and the returned mbuf holds "get key2\r\n".  (SpecSplit)
C6_ScenarioAsStated ==
    [][C6_Scenario
       => /\ Occupied(World', call'.b) = GetKey1
          /\ Occupied(World', call'.ret) = GetKey2]_vars

\* C6 amended: in the scenario the original mbuf is left holding
\* "get key1 \r\n", the space before the split position included, and the
\* returned mbuf holds "get key2\r\n".  (SpecSplit)
C6_ScenarioKeepsSpace ==
    [][C6_Scenario
       => /\ Occupied(World', call'.b) = GetKey1Space
          /\ Occupied(World', call'.ret) = GetKey2]_vars

\* the scenario has been split: a lone mbuf and the returned one hold the two
\* requests
C6_Witness ==
    /\ call.op = "mbuf_split" /\ call.ret # NULL /\ status = "ok"
    /\ call.pos = AfterKey1
    /\ Members(World, 1) = <<call.b>>
    /\ Occupied(World, call.b) = GetKey1Space
    /\ Occupied(World, call.ret) = GetKey2

\* C7: for every successful mbuf_split, (length of the tail after - length of
\* the tail literal) + (length of the returned mbuf - length of the head
\* literal) = length of the tail before.  (SpecSplit)
C7_SplitConservesBytes ==
    [][SplitDone
       => (mbuf_length(World', call'.b) - Len(mcopy_strings[call'.tailcopy]))
          + (mbuf_length(World', call'.ret) - Len(mcopy_strings[call'.headcopy]))
          = mbuf_length(World, call'.b)]_vars

\* a split strictly inside the occupied range, with both literals non-empty
C7_Witness ==
    /\ call.op = "mbuf_split" /\ call.ret # NULL /\ status = "ok"
    /\ call.headcopy = MCOPY_GET /\ call.tailcopy = MCOPY_CRLF
    /\ mbuf[call.b].pos > 0
    /\ call.pos > mbuf[call.b].pos
    /\ mbuf_length(World, call.ret) > Len(mcopy_strings[MCOPY_GET])

\* C8: the free pool is a stack: mbuf_put pushes the mbuf at the head and
\* counts it, and mbuf_get on a non-empty pool returns the head, leaving the
\* rest of the pool in order and the count one lower.  (Spec)
C8_PoolIsLifo ==
    [][/\ call'.op = "mbuf_put" /\ status' = "ok"
          => /\ Pool(World') = <<call'.b>> \o Pool(World)
             /\ nfree_mbufq' = nfree_mbufq + 1
       /\ (call'.op = "mbuf_get" /\ Pool(World) # <<>>)
          => /\ status' = "ok"
             /\ call'.ret = Head(Pool(World))
             /\ Pool(World') = Tail(Pool(World))
             /\ nfree_mbufq' = nfree_mbufq - 1]_vars

\* mbuf_get has returned an mbuf from a pool that held two
C8_Witness ==
    /\ call.op = "mbuf_get" /\ call.ret # NULL /\ status = "ok"
    /\ Len(Pool(World)) >= 1

\* C9: a successful mbuf_split returns an mbuf linked in no queue and not in
\* the free pool, and leaves the queue's members and their order unchanged:
\* of the members only the tail changes, in its last cursor and its bytes.
\* (SpecSplit)
C9_SplitFrame ==
    [][SplitDone
       => /\ mbuf'[call'.ret].next = NULL
          /\ Held(World', call'.ret)
          /\ Members(World', call'.q) = Members(World, call'.q)
          /\ \A b \in Range(Members(World, call'.q)) :
                IF b = call'.b
                THEN [mbuf'[b] EXCEPT !.last = mbuf[b].last] = mbuf[b]
                ELSE mbuf'[b] = mbuf[b] /\ mem'[b] = mem[b]]_vars

\* a queue of two mbufs has been split, bytes and a literal moved, with the
\* last mbuf there is
C9_Witness ==
    /\ call.op = "mbuf_split" /\ call.ret # NULL /\ status = "ok"
    /\ Len(Members(World, call.q)) = 2
    /\ mbuf[call.b].last > call.pos
    /\ mbuf_length(World, call.ret) > 0
    /\ nfree_mbufq = 0
    /\ \A b \in Buf : mbuf[b].state = "live"

\* C11: mbuf_copy of n bytes that fit advances last by exactly n and leaves
\* start, pos, end, magic and next and the bytes before the old last
\* unchanged; with n = 0 it changes nothing, on a full mbuf too.  (SpecFill)
C11_CopyFrame ==
    [][call'.op = "mbuf_copy"
       => /\ status' = "ok"
          /\ mbuf'[call'.b] = [mbuf[call'.b] EXCEPT !.last = @ + call'.n]
          /\ \A i \in 1 .. mbuf[call'.b].last : mem'[call'.b][i] = mem[call'.b][i]
          /\ call'.n = 0 => World' = World]_vars

\* mbuf_copy of no bytes has returned from a full, partly consumed mbuf
C11_Witness ==
    /\ call.op = "mbuf_copy" /\ call.n = 0 /\ status = "ok"
    /\ mbuf_full(World, call.b)
    /\ mbuf[call.b].pos > mbuf[call.b].start

\* C12: mbuf_get never ends the process; it asks the allocator only when the
\* free pool is empty; when the allocator then fails it returns NULL with the
\* pool, its count and every mbuf unchanged; on a non-empty pool it always
\* returns an mbuf, whatever the allocator would answer.  (Spec)
C12_ExhaustionIsRecoverable ==
    [][call'.op = "mbuf_get"
       => /\ status' = "ok"
          /\ Pool(World) # <<>>
             => /\ call'.ret # NULL
                /\ Unalloc(World') = Unalloc(World)
          /\ Pool(World) = <<>> /\ call'.ret # NULL
             => /\ call'.ret \in Unalloc(World)
                /\ Unalloc(World') = Unalloc(World) \ {call'.ret}
          /\ call'.ret = NULL
             => /\ Pool(World) = <<>>
                /\ World' = World]_vars

\* mbuf_get has failed although the allocator had regions left, with mbufs in
\* use
C12_Witness ==
    /\ call.op = "mbuf_get" /\ call.ret = NULL /\ status = "ok"
    /\ Unalloc(World) # {}
    /\ Members(World, 1) # <<>>

\* C13: a successful mbuf_split at pos = tail.last returns an mbuf holding
\* exactly the head literal, and the tail holds the bytes it held followed by
\* the tail literal.  (SpecSplit)
C13_SplitAtLast ==
    [][SplitDone /\ call'.pos = mbuf[call'.b].last
       => /\ Occupied(World', call'.ret) = mcopy_strings[call'.headcopy]
          /\ Occupied(World', call'.b)
             = Occupied(World, call'.b) \o mcopy_strings[call'.tailcopy]]_vars

\* a tail holding one byte was split at its last with both literals
C13_Witness ==
    /\ call.op = "mbuf_split" /\ call.ret # NULL /\ status = "ok"
    /\ call.headcopy = MCOPY_GET /\ call.tailcopy = MCOPY_CRLF
    /\ Occupied(World, call.ret) = mcopy_strings[MCOPY_GET]
    /\ Occupied(World, call.b) = <<"x">> \o mcopy_strings[MCOPY_CRLF]

\* C14: a successful mbuf_split at pos = tail.pos returns an mbuf holding the
\* head literal followed by all the bytes the tail held, and the tail's
\* occupied range holds the tail literal alone.  (SpecSplit)
C14_SplitAtPos ==
    [][SplitDone /\ call'.pos = mbuf[call'.b].pos
       => /\ Occupied(World', call'.ret)
             = mcopy_strings[call'.headcopy] \o Occupied(World, call'.b)
          /\ Occupied(World', call'.b) = mcopy_strings[call'.tailcopy]]_vars

\* a partly consumed tail was split at its pos: all it held has moved
C14_Witness ==
    /\ call.op = "mbuf_split" /\ call.ret # NULL /\ status = "ok"
    /\ call.headcopy = MCOPY_GET /\ call.tailcopy = MCOPY_CRLF
    /\ call.pos = mbuf[call.b].pos /\ call.pos > mbuf[call.b].start
    /\ mbuf_length(World, call.ret) > Len(mcopy_strings[MCOPY_GET]) + 1
    /\ Occupied(World, call.b) = mcopy_strings[MCOPY_CRLF]

\* start <= pos <= last <= end
Ordered(w, b) ==
    /\ w.mbuf[b].start <= w.mbuf[b].pos
    /\ w.mbuf[b].pos <= w.mbuf[b].last
    /\ w.mbuf[b].last <= w.mbuf[b].end

\* C15: every mbuf_split of a non-empty queue at a position in
\* [tail.pos, tail.last] whose mbuf_get succeeds runs to its end, none of its
\* three copies failing mbuf_copy's capacity assertion, whatever the fill of
\* the tail and the literals; both mbufs then have
\* start <= pos <= last <= end.  (SpecSplit)
C15_SplitCompletes ==
    call.op = "mbuf_split"
    => /\ status = "ok"
       /\ call.ret # NULL => Ordered(World, call.b) /\ Ordered(World, call.ret)

\* the first k bytes of a sequence, and the rest
Upto(d, k) == [i \in 1 .. k |-> d[i]]
From(d, k) == [i \in 1 .. Len(d) - k |-> d[k + i]]

\* C16: after a successful mbuf_split of a tail holding the bytes D at offset
\* k into D, the returned mbuf holds the head literal followed by D from k
\* on, the tail holds the first k bytes of D followed by the tail literal,
\* and no other mbuf of the queue is modified.  (SpecSplit)
C16_SplitContents ==
    [][SplitDone
       => /\ Occupied(World', call'.ret)
             = mcopy_strings[call'.headcopy]
               \o From(Occupied(World, call'.b), call'.pos - mbuf[call'.b].pos)
          /\ Occupied(World', call'.b)
             = Upto(Occupied(World, call'.b), call'.pos - mbuf[call'.b].pos)
               \o mcopy_strings[call'.tailcopy]
          /\ \A b \in Range(Members(World, call'.q)) \ {call'.b} :
                mbuf'[b] = mbuf[b] /\ mem'[b] = mem[b]]_vars

\* a partly consumed tail behind another mbuf was split inside its bytes with
\* both literals: "key1 " stays, "key2\r\n" moves
C16_Witness ==
    /\ call.op = "mbuf_split" /\ call.ret # NULL /\ status = "ok"
    /\ Len(Members(World, call.q)) = 2
    /\ mbuf[call.b].pos > mbuf[call.b].start
    /\ Occupied(World, call.b)
       = <<"k", "e", "y", "1", " ">> \o mcopy_strings[MCOPY_CRLF]
    /\ Occupied(World, call.ret)
       = mcopy_strings[MCOPY_GET] \o <<"k", "e", "y", "2", "\r", "\n">>

\* a sequence without one of its elements
Without(s, b) == SelectSeq(s, LAMBDA x : x # b)

\* C17: mbuf_insert places the mbuf last in the queue; mbuf_remove of a member
\* at any position removes that mbuf alone, clears its next and keeps the
\* order of the others: the queue's order is the order its members were
\* inserted in.  (Spec)
C17_QueueKeepsOrder ==
    [][/\ call'.op = "mbuf_insert"
          => /\ status' = "ok"
             /\ Members(World', call'.q) = Append(Members(World, call'.q), call'.b)
       /\ call'.op = "mbuf_remove"
          => /\ status' = "ok"
             /\ Members(World', call'.q) = Without(Members(World, call'.q), call'.b)
             /\ Len(Members(World', call'.q)) = Len(Members(World, call'.q)) - 1
             /\ mbuf'[call'.b].next = NULL
             /\ Held(World', call'.b)]_vars

\* an mbuf has been removed from a queue of three, the two others inserted
\* against the order they were allocated in
C17_Witness ==
    /\ call.op = "mbuf_remove" /\ status = "ok"
    /\ Len(Members(World, call.q)) = 2
    /\ Members(World, call.q)[1] > Members(World, call.q)[2]

\* the regions handed back to the allocator, and those obtained from it and
\* not handed back
Freed(w) == {b \in Buf : w.mbuf[b].state = "freed"}
Allocated(w) == {b \in Buf : w.mbuf[b].state = "live"}

\* C18: memory is handed back to the allocator by mbuf_deinit alone, never by
\* mbuf_put, mbuf_remove or mbuf_split (nor mbuf_get, mbuf_insert);
\* mbuf_deinit returns from every pool and hands back each mbuf of the pool
\* once, leaving none in it.  (SpecLife)
C18_FreedOnlyByTeardown ==
    [][/\ call'.op # "mbuf_deinit" => Freed(World') = Freed(World)
       /\ call'.op = "mbuf_deinit"
          => /\ status' = "ok"
             /\ Range(Pool(World)) \cap Freed(World) = {}
             /\ Cardinality(Range(Pool(World))) = Len(Pool(World))
             /\ Freed(World') = Freed(World) \cup Range(Pool(World))
             /\ Pool(World') = <<>>]_vars

\* mbuf_deinit has handed back a pool of two after a split, an mbuf still
\* queued
C18_Witness ==
    /\ call.op = "mbuf_deinit" /\ status = "ok"
    /\ nsplit > 0
    /\ Cardinality(Freed(World)) >= 2
    /\ Members(World, 1) # <<>>

\* the mbufs outside the pool: in a queue, or held unlinked by a caller
Outside(w) ==
    {b \in Allocated(w) : Held(w, b) \/ \E q \in Queue : InQ(w, q, b)}

Conserved(w) ==
    Cardinality(Allocated(w)) = w.nfree_mbufq + Cardinality(Outside(w))

\* C19: in every state the number of mbufs obtained from the allocator and
\* not handed back is nfree_mbufq plus the number of mbufs outside the pool;
\* mbuf_get on a non-empty pool, mbuf_put, mbuf_insert, mbuf_remove and a
\* failed mbuf_split keep that number, and a successful mbuf_split or an
\* mbuf_get on an empty pool raises it by one at most.  (SpecLife)
C19_MbufsConserved ==
    [][/\ Conserved(World) /\ Conserved(World')
       /\ \/ call'.op \in {"mbuf_put", "mbuf_insert", "mbuf_remove"}
          \/ call'.op = "mbuf_get" /\ Pool(World) # <<>>
          \/ call'.op = "mbuf_split" /\ call'.ret = NULL
          => Allocated(World') = Allocated(World)
       /\ call'.op \in {"mbuf_get", "mbuf_split"}
          => /\ Allocated(World) \subseteq Allocated(World')
             /\ Cardinality(Allocated(World')) <= Cardinality(Allocated(World)) + 1]_vars

\* a split has taken its mbuf from the pool, which still holds one: every
\* region is in use and none was added
C19_Witness ==
    /\ call.op = "mbuf_split" /\ call.ret # NULL /\ status = "ok"
    /\ nfree_mbufq >= 1
    /\ Cardinality(Allocated(World)) = NBuf

\* C10: when mbuf_deinit returns, nfree_mbufq is 0 and free_mbufq is empty;
\* on a pool that is already empty it changes nothing and frees nothing.
\* (Spec)
C10_TeardownEmpties ==
    [][call'.op = "mbuf_deinit"
       => /\ status' = "ok"
          /\ nfree_mbufq' = 0
          /\ STAILQ_EMPTY(free_mbufq')
          /\ Pool(World') = <<>>
          /\ STAILQ_EMPTY(free_mbufq) => World' = World]_vars

\* mbuf_deinit has freed a pool of two mbufs while a third is in the queue
C10_Witness ==
    /\ call.op = "mbuf_deinit" /\ status = "ok"
    /\ Cardinality({b \in Buf : mbuf[b].state = "freed"}) >= 2
    /\ Members(World, 1) # <<>>
====
